---- MODULE Spec2Model ----
(***************************************************************************)
(* Model of bot.py: the Telegram news bot with a 24h per-user rate limit.  *)
(* State: the wall clock read by datetime.now(), the SQLite table `users`, *)
(* and the command handler in progress: its position, its locals and what  *)
(* it has done so far.  Application.builder().build() leaves               *)
(* concurrent_updates off, so updates are handled one at a time: a handler *)
(* runs to its end before the next command is taken.  Time is counted in   *)
(* whole seconds.  Spec is the bot from the entry of main(); SpecClock     *)
(* adds a wall clock that can be set back; SpecFetch runs get_top_news and *)
(* format_news on their own over bounded inputs; SpecStatus runs status()  *)
(* with time passing between its two clock readings.                       *)
(***************************************************************************)
EXTENDS Integers, Sequences, FiniteSets, TLC

(* ---------------------------------------------------------------- bounds *)
\* number of clock advances in one behaviour
MaxTicks == 3

\* the wall clock may be set back at most this many times (SpecClock only)
MaxStepBacks == 1

\* longest upstream list examined
MaxItems == 7

(* ------------------------------------------------------------- constants *)
RATE_LIMIT_HOURS == 24

\* the administrator identifier of the configuration the spec describes;
\* bot.py reads no such setting and treats this user like any other
ADMIN_ID == "admin"

Users == {ADMIN_ID, "u1"}

\* update.effective_chat.id: the group chat the users write in
ChatIds == {100}

\* clock advances between two steps, in seconds
TickSteps == {3630, 82770}

\* the wall clock set back by one hour (end of daylight saving time)
StepBacks == {3600}

(* ------------------------------------------------------------- datetime  *)
\* datetime.isoformat(): the text stored in the column last_request,
\* "<date>T<hh>:<mm>:<ss>", kept as its four fields
isoformat(t) ==
    << t \div 86400, (t % 86400) \div 3600, (t % 3600) \div 60, t % 60 >>

\* datetime.fromisoformat(): the instant a stored text denotes
fromisoformat(s) == s[1] * 86400 + s[2] * 3600 + s[3] * 60 + s[4]

\* timedelta(hours=h)
timedelta_hours(h) == h * 3600

\* timedelta.seconds: the seconds field of the normalised (days, seconds)
\* pair; whole days are NOT part of it
timedelta_seconds(d) == d % 86400

(* -------------------------------------------------------------- database *)
\* SELECT last_request FROM users WHERE user_id = ?  ; fetchone()
\* <<>> is None, otherwise the row <<last_request>>
fetchone(rows, user_id) ==
    LET hit == {r \in rows : r.user_id = user_id}
    IN  IF hit = {} THEN << >>
        ELSE << (CHOOSE r \in hit : TRUE).last_request >>

\* a write that empties the table before it inserts
InsertOrReplace_truncating(rows, row) == {row}

\* INSERT OR IGNORE: a row already there for the user_id is kept
InsertOrReplace_ignore(rows, row) ==
    IF \E r \in rows : r.user_id = row.user_id THEN rows ELSE rows \cup {row}

\* plain INSERT into a table without the PRIMARY KEY: rows pile up
InsertOrReplace_append(rows, row) == rows \cup {row}

\* INSERT OR REPLACE INTO users ... (user_id is the PRIMARY KEY)
InsertOrReplace(rows, row) ==
    {r \in rows : r.user_id # row.user_id} \cup {row}

\* the wait text of can_request, line 53, by the two numbers it shows
WaitMsg(hours, minutes) == << "wait", hours, minutes >>

\* can_request with the comparison of line 46 turned around
can_request_reversed(rows, user_id, t, dbFail) ==
    LET result == fetchone(rows, user_id)
    IN  IF dbFail \/ result = << >>
        THEN [allowed |-> TRUE, msg |-> << >>, err |-> dbFail]
        ELSE IF t <= fromisoformat(result[1]) + timedelta_hours(RATE_LIMIT_HOURS)
        THEN [allowed |-> TRUE, msg |-> << >>, err |-> FALSE]
        ELSE [allowed |-> FALSE, msg |-> WaitMsg(0, 0), err |-> FALSE]

\* can_request with > for the >= of line 46
can_request_strict(rows, user_id, t, dbFail) ==
    LET result == fetchone(rows, user_id)
        remaining == fromisoformat(result[1])
                       + timedelta_hours(RATE_LIMIT_HOURS) - t
    IN  IF dbFail \/ result = << >>
        THEN [allowed |-> TRUE, msg |-> << >>, err |-> dbFail]
        ELSE IF remaining < 0
        THEN [allowed |-> TRUE, msg |-> << >>, err |-> FALSE]
        ELSE [allowed |-> FALSE,
              msg |-> WaitMsg(timedelta_seconds(remaining) \div 3600,
                              (timedelta_seconds(remaining) % 3600) \div 60),
              err |-> FALSE]

\* can_request whose except branch refuses instead of allowing
can_request_fail_closed(rows, user_id, t, dbFail) ==
    LET result == fetchone(rows, user_id)
    IN  IF dbFail
        THEN [allowed |-> FALSE, msg |-> WaitMsg(0, 0), err |-> TRUE]
        ELSE IF result = << >>
                \/ t >= fromisoformat(result[1])
                          + timedelta_hours(RATE_LIMIT_HOURS)
        THEN [allowed |-> TRUE, msg |-> << >>, err |-> FALSE]
        ELSE [allowed |-> FALSE, msg |-> WaitMsg(0, 0), err |-> FALSE]

\* can_request(user_id) at clock reading t; dbFail: the sqlite access raises.
\* allowed, msg: the returned pair ("" is <<>>); err: logger.error was called
can_request(rows, user_id, t, dbFail) ==
    IF dbFail
    THEN [allowed |-> TRUE, msg |-> << >>, err |-> TRUE]
    ELSE
      LET result == fetchone(rows, user_id)
      IN  IF result = << >>
          THEN [allowed |-> TRUE, msg |-> << >>, err |-> FALSE]
          ELSE
            LET last_req     == fromisoformat(result[1])
                next_allowed == last_req + timedelta_hours(RATE_LIMIT_HOURS)
                remaining    == next_allowed - t
                hours        == timedelta_seconds(remaining) \div 3600
                minutes      == (timedelta_seconds(remaining) % 3600) \div 60
            IN  IF t >= next_allowed
                THEN [allowed |-> TRUE, msg |-> << >>, err |-> FALSE]
                ELSE [allowed |-> FALSE, msg |-> WaitMsg(hours, minutes),
                      err |-> FALSE]

\* update_last_request storing the date without the time of day
update_last_request_date_only(rows, user_id, chat_id, t, dbFail) ==
    IF dbFail
    THEN [rows |-> rows, err |-> TRUE, raised |-> FALSE]
    ELSE [rows |-> InsertOrReplace(rows,
                      [user_id |-> user_id, chat_id |-> chat_id,
                       last_request |-> isoformat(t - (t % 86400))]),
          err |-> FALSE, raised |-> FALSE]

\* update_last_request without its try/except
update_last_request_unguarded(rows, user_id, chat_id, t, dbFail) ==
    IF dbFail
    THEN [rows |-> rows, err |-> FALSE, raised |-> TRUE]
    ELSE [rows |-> InsertOrReplace(rows,
                      [user_id |-> user_id, chat_id |-> chat_id,
                       last_request |-> isoformat(t)]),
          err |-> FALSE, raised |-> FALSE]

\* update_last_request(user_id, chat_id) at clock reading t
\* rows: the table afterwards; err: the write failed and logger.error was
\* called; raised: an exception leaves the function
update_last_request(rows, user_id, chat_id, t, dbFail) ==
    IF dbFail
    THEN [rows |-> rows, err |-> TRUE, raised |-> FALSE]
    ELSE [rows |-> InsertOrReplace(rows,
                      [user_id |-> user_id, chat_id |-> chat_id,
                       last_request |-> isoformat(t)]),
          err |-> FALSE, raised |-> FALSE]

(* ---------------------------------------------------------- news fetcher *)
\* a title is the sequence of its characters
\* str.lower() on one character (of the letters the titles are made of)
LowerChar(c) ==
    CASE c = "M" -> "m"
      [] c = "A" -> "a"
      [] c = "R" -> "r"
      [] c = "O" -> "o"
      [] c = "C" -> "c"
      [] OTHER   -> c

\* str.lower()
Lower(w) == [i \in 1..Len(w) |-> LowerChar(w[i])]

\* the keyword list of get_top_news; "mghrb" stands for the Arabic keyword
Keywords == { << "m", "g", "h", "r", "b" >>,
              << "m", "o", "r", "o", "c", "c", "o" >>,
              << "m", "a", "r", "o", "c" >> }

\* kw in s, with the upper bound of the scan left unchecked
Contains_overrun(s, kw) ==
    \E i \in 1..Len(s) :
      \A j \in 1..Len(kw) : i + j - 1 > Len(s) \/ s[i + j - 1] = kw[j]

\* kw in s: kw is a run of consecutive characters of s
Contains(s, kw) ==
    \E i \in 1..(Len(s) - Len(kw) + 1) : SubSeq(s, i, i + Len(kw) - 1) = kw

\* any(kw in title.lower() for kw in [...])
HasKeyword(title) ==
    \E kw \in Keywords : Contains(Lower(title), kw)

\* an upstream item: title, length of the description, url, source_name
RawItem(title, dlen) ==
    [title |-> title, description |-> dlen, url |-> "u", source_name |-> "s"]

\* "Morocco wins", with a description of 200 characters
ItemA == RawItem(<< "M", "o", "r", "o", "c", "c", "o", " ",
                    "w", "i", "n", "s" >>, 200)
\* "world mar", with a description of 10 characters
ItemB == RawItem(<< "w", "o", "r", "l", "d", " ", "m", "a", "r" >>, 10)
\* "le MAROCain", with a description of 10 characters
ItemC == RawItem(<< "l", "e", " ", "M", "A", "R", "O", "C", "a", "i", "n" >>,
                 10)

\* what requests.get(...) / raise_for_status() / response.json() can give
FailureKinds == {"timeout", "connection_error", "http_error", "bad_json",
                 "bad_shape"}

Responses ==
    { [kind |-> k, news |-> << >>, web |-> << >>] : k \in FailureKinds }
    \cup
    { [kind |-> "ok", news |-> n, web |-> w] :
        n \in { << >>, << ItemA >>, << ItemB, ItemC >> },
        w \in { << >>, << ItemA >> } }

Min(a, b) == IF a < b THEN a ELSE b

\* item.get("description", "")[:180] + "..."  (length kept, and the suffix)
Truncate(dlen) == [len |-> Min(dlen, 180), suffix |-> "..."]

\* the dictionary get_top_news appends for an upstream item, lines 94-100
NewsItem(item) ==
    [title |-> item.title,
     description |-> Truncate(item.description),
     url |-> item.url,
     source |-> item.source_name]

RECURSIVE FilterItems(_)
\* the loop of get_top_news over results.news
FilterItems(raw) ==
    IF raw = << >> THEN << >>
    ELSE LET item == Head(raw)
             rest == FilterItems(Tail(raw))
         IN  IF HasKeyword(item.title)
             THEN << NewsItem(item) >> \o rest
             ELSE rest

\* items[:5]
FirstFive(s) == SubSeq(s, 1, Min(Len(s), 5))

\* get_top_news without its try/except
get_top_news_unguarded(resp) ==
    IF resp.kind \in FailureKinds
    THEN [items |-> << >>, err |-> FALSE, raised |-> TRUE]
    ELSE [items |-> FirstFive(FilterItems(resp.news)), err |-> FALSE,
          raised |-> FALSE]

\* MoroccoNewsFetcher.get_top_news(): every exception is caught and logged
\* items: the returned list; err: logger.error was called;
\* raised: an exception leaves the method
get_top_news(resp) ==
    IF resp.kind \in FailureKinds
    THEN [items |-> << >>, err |-> TRUE, raised |-> FALSE]
    ELSE [items |-> FirstFive(FilterItems(resp.news)), err |-> FALSE,
          raised |-> FALSE]

\* the fixed no-news text of format_news, line 109
NoNewsMsg == << [kind |-> "nonews"] >>

\* format_news numbering its blocks from 0
format_news_from_zero(items, t) ==
    IF items = << >> THEN NoNewsMsg
    ELSE << [kind |-> "header", date |-> t \div 86400] >>
         \o [i \in 1..Len(items) |->
               [kind |-> "block", n |-> i - 1, title |-> items[i].title,
                description |-> items[i].description,
                url |-> items[i].url, source |-> items[i].source]]

\* MoroccoNewsFetcher.format_news(items) at clock reading t
format_news(items, t) ==
    IF items = << >> THEN NoNewsMsg
    ELSE << [kind |-> "header", date |-> t \div 86400] >>
         \o [i \in 1..Len(items) |->
               [kind |-> "block", n |-> i, title |-> items[i].title,
                description |-> items[i].description,
                url |-> items[i].url, source |-> items[i].source]]

(* ----------------------------------------------------------------- state *)
VARIABLES
    now,        \* datetime.now(), seconds
    ticks,      \* clock advances so far
    stepbacks,  \* clock set-backs so far
    users,      \* the table users: rows [user_id, chat_id, last_request]
    pc,         \* where the handler in progress stands: idle, fetch, record
    user_id,    \* the user of the current (or last) invocation
    chat_id,    \* the chat of that invocation
    cmd,        \* its command: start, news, status
    recvAt,     \* clock reading when the command was received
    pre,        \* the table when the command was received
    calls,      \* upstream requests made by the invocation
    log,        \* logger.error lines written by the invocation
    outbox,     \* messages the invocation delivered, in order
    result,     \* none, running, returned, or the exception that left the
                \* handler: TelegramError (reply_text), sqlite3.Error, Exception
    lastAt,     \* lastAt[u]: clock reading of u's last committed write, or -1
    env,        \* os.environ: TELEGRAM_TOKEN and YOU_API_KEY
    phase,      \* main(): boot, stopped (returned at line 202), serving
    handlers,   \* the entry points main() has registered
    tableCreated, \* init_db() has created the table users
    storage,    \* reliable: no sqlite access ever raises; faulty: any may
    fetchedAt,  \* fetchedAt[u]: clock reading of the latest upstream request
                \* made for u, or -1; kept for the users the cooldown is
                \* claimed for
    probe       \* SpecFetch: the fetcher method being run on its own, its
                \* input and its output; off in the bot

\* what main() sets up
bootVars == << env, phase, handlers, tableCreated, storage >>

vars == << now, ticks, stepbacks, users, pc, user_id, chat_id, cmd, recvAt,
           pre, calls, log, outbox, result, lastAt, bootVars, fetchedAt,
           probe >>

\* the users other than the administrator
NonAdmin == Users \ {ADMIN_ID}

\* os.getenv(name): unset gives None, and "" is as false as None
EnvValues == {"unset", "empty", "set"}

\* the state of the handlers before any command
Quiet ==
    /\ now = 0
    /\ ticks = 0
    /\ stepbacks = 0
    /\ users = {}
    /\ pc = "idle"
    /\ user_id = ""
    /\ chat_id = 0
    /\ cmd = "none"
    /\ recvAt = 0
    /\ pre = {}
    /\ calls = 0
    /\ log = {}
    /\ outbox = << >>
    /\ result = "none"
    /\ lastAt = [u \in Users |-> -1]
    /\ fetchedAt = [u \in NonAdmin |-> -1]

\* the process at the entry of main(): any environment, no table yet
Init ==
    /\ Quiet
    /\ env \in [TELEGRAM_TOKEN : EnvValues, YOU_API_KEY : EnvValues]
    /\ phase = "boot"
    /\ handlers = {}
    /\ tableCreated = FALSE
    /\ storage \in {"reliable", "faulty"}
    /\ probe = [stage |-> "off"]

\* whether a sqlite access may raise: never on reliable storage, always
\* while the table is missing ("no such table"), otherwise it may
DbFails == IF storage = "reliable" THEN {FALSE}
           ELSE IF ~ tableCreated /\ phase = "serving" THEN {TRUE}
           ELSE BOOLEAN

(* ------------------------------------------------------------------ main *)
\* main(), line 200 with or written as and
ConfigMissing_and(e) == e.TELEGRAM_TOKEN # "set" /\ e.YOU_API_KEY # "set"

\* main(), line 200: if not token or not api_key
ConfigMissing(e) == e.TELEGRAM_TOKEN # "set" \/ e.YOU_API_KEY # "set"

\* init_db(): CREATE TABLE IF NOT EXISTS; a failure is logged and swallowed
init_db(dbFail) == [created |-> ~ dbFail, err |-> dbFail]

\* the entry points main() registers, lines 209-211
Registered == {"start", "news", "status"}

\* main(): stop when a credential is missing; otherwise init_db(), register
\* the handlers and poll
Main ==
    /\ phase = "boot"
    /\ IF ConfigMissing(env)
       THEN /\ phase' = "stopped"
            /\ log' = {"Missing environment variables"}
            /\ UNCHANGED << handlers, tableCreated >>
       ELSE \E dbFail \in DbFails :
              LET d == init_db(dbFail)
              IN  /\ tableCreated' = d.created
                  /\ log' = IF d.err THEN {"DB init error"} ELSE {}
                  /\ handlers' = Registered
                  /\ phase' = "serving"
    /\ UNCHANGED << now, ticks, stepbacks, users, pc, user_id, chat_id, cmd,
                    recvAt, pre, calls, outbox, result, lastAt, env, storage,
                    fetchedAt, probe >>

(* ----------------------------------------------------------------- clock *)
Tick ==
    /\ phase # "boot"
    /\ ticks < MaxTicks
    /\ \E d \in TickSteps : now' = now + d
    /\ ticks' = ticks + 1
    /\ UNCHANGED << stepbacks, users, pc, user_id, chat_id, cmd, recvAt, pre,
                    calls, log, outbox, result, lastAt, bootVars, fetchedAt,
                    probe >>

ClockStepBack ==
    /\ phase # "boot"
    /\ stepbacks < MaxStepBacks
    /\ \E d \in StepBacks : now >= d /\ now' = now - d
    /\ stepbacks' = stepbacks + 1
    /\ UNCHANGED << ticks, users, pc, user_id, chat_id, cmd, recvAt, pre,
                    calls, log, outbox, result, lastAt, bootVars, fetchedAt,
                    probe >>

(* -------------------------------------------------------------- handlers *)
\* the next update is taken: command c of user u in chat ch.  datetime.now()
\* counts microseconds and a reply_text round trip lies between a write and
\* the next command, so no command is received at the very instant a stored
\* timestamp names
Begin(u, ch, c) ==
    /\ phase = "serving"
    /\ c \in handlers
    /\ pc = "idle"
    /\ \A r \in users : fromisoformat(r.last_request) # now
    /\ user_id' = u
    /\ chat_id' = ch
    /\ cmd' = c
    /\ recvAt' = now
    /\ pre' = users

\* start(): one reply_text, which may raise
Start(u) ==
    \E ch \in ChatIds, sendFail \in BOOLEAN :
      /\ Begin(u, ch, "start")
      /\ IF sendFail
         THEN /\ outbox' = << >>
              /\ result' = "TelegramError"
         ELSE /\ outbox' = << [kind |-> "welcome"] >>
              /\ result' = "returned"
      /\ calls' = 0
      /\ log' = {}
      /\ UNCHANGED << now, ticks, stepbacks, users, pc, lastAt, bootVars,
                      fetchedAt, probe >>

\* news(), lines 135-145: can_request, then the wait text and return, or
\* the progress text
NewsCheck(u) ==
    \E ch \in ChatIds, dbFail \in DbFails, sendFail \in BOOLEAN :
      LET r == can_request(users, u, now, dbFail)
      IN  /\ Begin(u, ch, "news")
          /\ log' = IF r.err THEN {"DB error"} ELSE {}
          /\ calls' = 0
          /\ IF sendFail
             THEN /\ outbox' = << >>
                  /\ result' = "TelegramError"
                  /\ pc' = "idle"
             ELSE IF ~ r.allowed
             THEN /\ outbox' = << [kind |-> "wait", text |-> r.msg] >>
                  /\ result' = "returned"
                  /\ pc' = "idle"
             ELSE /\ outbox' = << [kind |-> "fetching"] >>
                  /\ result' = "running"
                  /\ pc' = "fetch"
          /\ UNCHANGED << now, ticks, stepbacks, users, lastAt, bootVars,
                          fetchedAt, probe >>

\* news(), lines 147-155: get_top_news, format_news, reply_text
NewsFetchSend ==
    /\ pc = "fetch"
    /\ \E resp \in Responses, sendFail \in BOOLEAN :
         LET r == get_top_news(resp)
         IN  /\ calls' = calls + 1
             /\ fetchedAt' = [u \in NonAdmin |->
                                 IF u = user_id THEN now ELSE fetchedAt[u]]
             /\ log' = IF r.err THEN log \cup {"News fetch error"} ELSE log
             /\ IF r.raised \/ sendFail
                THEN /\ result' = IF r.raised THEN "Exception"
                                  ELSE "TelegramError"
                     /\ pc' = "idle"
                     /\ outbox' = outbox
                ELSE /\ outbox' = Append(outbox,
                            [kind |-> "digest",
                             text |-> format_news(r.items, now)])
                     /\ pc' = "record"
                     /\ result' = result
    /\ UNCHANGED << now, ticks, stepbacks, users, user_id, chat_id, cmd,
                    recvAt, pre, lastAt, bootVars, probe >>

\* news(), lines 158-164: update_last_request, then the next-time text
NewsRecord ==
    /\ pc = "record"
    /\ \E dbFail \in DbFails, sendFail \in BOOLEAN :
         LET w == update_last_request(users, user_id, chat_id, now, dbFail)
             next_time == now + timedelta_hours(RATE_LIMIT_HOURS)
         IN  /\ users' = w.rows
             /\ lastAt' = IF w.err THEN lastAt
                          ELSE [lastAt EXCEPT ![user_id] = now]
             /\ log' = IF w.err THEN log \cup {"Error updating timestamp"}
                       ELSE log
             /\ IF w.raised \/ sendFail
                THEN /\ result' = IF w.raised THEN "sqlite3.Error"
                                  ELSE "TelegramError"
                     /\ outbox' = outbox
                ELSE /\ result' = "returned"
                     /\ outbox' = Append(outbox,
                            [kind |-> "next", at |-> next_time \div 60])
    /\ pc' = "idle"
    /\ UNCHANGED << now, ticks, stepbacks, user_id, chat_id, cmd, recvAt,
                    pre, calls, bootVars, fetchedAt, probe >>

\* the reply of status() for a stored last_request; t is the clock reading
\* of line 183 (the comparison), t2 that of line 186 (the subtraction)
StatusText(last_request, t, t2) ==
    LET last_req     == fromisoformat(last_request)
        next_allowed == last_req + timedelta_hours(RATE_LIMIT_HOURS)
        remaining    == next_allowed - t2
        hours        == timedelta_seconds(remaining) \div 3600
        minutes      == (timedelta_seconds(remaining) % 3600) \div 60
    IN  IF t >= next_allowed
        THEN [kind |-> "can_request_now"]
        ELSE [kind |-> "status_wait", text |-> WaitMsg(hours, minutes)]

\* status(): the sqlite access is outside any try, and so is reply_text;
\* lapse is the time that passes between the clock readings of lines 183
\* and 186
StatusRun(u, lapse) ==
    \E ch \in ChatIds, dbFail \in DbFails, sendFail \in BOOLEAN :
      LET row == fetchone(users, u)
      IN  /\ Begin(u, ch, "status")
          /\ lapse > 0 => ticks < MaxTicks
          /\ IF dbFail \/ sendFail
             THEN /\ outbox' = << >>
                  /\ result' = IF dbFail THEN "sqlite3.Error"
                               ELSE "TelegramError"
             ELSE /\ outbox' = << IF row = << >>
                                  THEN [kind |-> "can_request_now"]
                                  ELSE StatusText(row[1], now,
                                                  now + lapse) >>
                  /\ result' = "returned"
          /\ calls' = 0
          /\ log' = {}
          /\ now' = now + lapse
          /\ ticks' = IF lapse > 0 THEN ticks + 1 ELSE ticks
          /\ UNCHANGED << stepbacks, users, pc, lastAt, bootVars, fetchedAt,
                          probe >>

\* status() in the bot: a handler step takes no time, the clock moves
\* between steps (Tick)
Status(u) == StatusRun(u, 0)

(* ------------------------------------------------- status() on its own *)
\* seconds that may pass between the two clock readings of status()
Lapses == {0, 2}

\* stored timestamps, and how long after them the command arrives: just
\* after the write, an hour in, around the end of the cooldown, and later
StoredTimes == {0, 3630, 82770}
Offsets == {1, 3600, 82770, 86398, 86399, 86400, 86401, 90000}

\* the bot serving on reliable storage, the table empty or holding one
\* row, the clock somewhere after that row was written
InitStatus ==
    /\ ticks = 0
    /\ stepbacks = 0
    /\ pc = "idle"
    /\ user_id = ""
    /\ chat_id = 0
    /\ cmd = "none"
    /\ recvAt = 0
    /\ pre = {}
    /\ calls = 0
    /\ log = {}
    /\ outbox = << >>
    /\ result = "none"
    /\ fetchedAt = [u \in NonAdmin |-> -1]
    /\ env = [TELEGRAM_TOKEN |-> "set", YOU_API_KEY |-> "set"]
    /\ phase = "serving"
    /\ handlers = Registered
    /\ tableCreated = TRUE
    /\ storage = "reliable"
    /\ probe = [stage |-> "off"]
    /\ \/ /\ users = {}
          /\ lastAt = [u \in Users |-> -1]
          /\ now \in StoredTimes
       \/ \E u \in Users, ch \in ChatIds, w \in StoredTimes, d \in Offsets :
            /\ users = update_last_request({}, u, ch, w, FALSE).rows
            /\ lastAt = [v \in Users |-> IF v = u THEN w ELSE -1]
            /\ now = w + d

NextStatus == \E u \in Users, lapse \in Lapses : StatusRun(u, lapse)

SpecStatus == InitStatus /\ [][NextStatus]_vars

(* ------------------------------------- the fetcher's methods on their own *)
\* upstream lists of up to MaxItems items
ItemLists == UNION { [1..n -> {ItemA, ItemB, ItemC}] : n \in 0..MaxItems }

\* the responses the fetcher is examined on: results.news only,
\* results.web only (news empty or absent: .get("news", []) gives [] for
\* both), and the failures
Payloads ==
    { [kind |-> k, news |-> << >>, web |-> << >>] : k \in FailureKinds }
    \cup { [kind |-> "ok", news |-> n, web |-> << >>] : n \in ItemLists }
    \cup { [kind |-> "ok", news |-> << >>, web |-> w] : w \in ItemLists }

\* item lists handed to format_news directly
GivenLists == { [i \in 1..Len(l) |-> NewsItem(l[i])] : l \in ItemLists }

\* a fetcher with a response about to arrive, or a list about to be
\* formatted; no bot running
InitFetch ==
    /\ Quiet
    /\ env = [TELEGRAM_TOKEN |-> "unset", YOU_API_KEY |-> "set"]
    /\ phase = "stopped"
    /\ handlers = {}
    /\ tableCreated = FALSE
    /\ storage = "reliable"
    /\ \/ \E r \in Payloads :
            probe = [stage |-> "input", resp |-> r, items |-> << >>,
                     text |-> << >>]
       \/ \E l \in GivenLists :
            probe = [stage |-> "given", resp |-> << >>, items |-> l,
                     text |-> << >>]

\* fetcher.get_top_news()
ProbeFetch ==
    /\ probe.stage = "input"
    /\ probe' = [probe EXCEPT !.stage = "fetched",
                              !.items = get_top_news(probe.resp).items]
    /\ UNCHANGED << now, ticks, stepbacks, users, pc, user_id, chat_id, cmd,
                    recvAt, pre, calls, log, outbox, result, lastAt,
                    bootVars, fetchedAt >>

\* fetcher.format_news(items)
ProbeRender ==
    /\ probe.stage \in {"fetched", "given"}
    /\ probe' = [probe EXCEPT !.stage = "rendered",
                              !.text = format_news(probe.items, now)]
    /\ UNCHANGED << now, ticks, stepbacks, users, pc, user_id, chat_id, cmd,
                    recvAt, pre, calls, log, outbox, result, lastAt,
                    bootVars, fetchedAt >>

NextFetch == ProbeFetch \/ ProbeRender

SpecFetch == InitFetch /\ [][NextFetch]_vars

(* ------------------------------------------------------------- the bot *)
Next ==
    \/ Main
    \/ Tick
    \/ \E u \in Users : Start(u)
    \/ \E u \in Users : NewsCheck(u)
    \/ NewsFetchSend
    \/ NewsRecord
    \/ \E u \in Users : Status(u)

Spec == Init /\ [][Next]_vars

\* the same program under a wall clock that can also be set back
NextClock == Next \/ ClockStepBack

SpecClock == Init /\ [][NextClock]_vars

(* ---------------------------------------------------------------- claims *)
\* COOLDOWN_PERIOD in seconds
CooldownSeconds == RATE_LIMIT_HOURS * 3600

\* u has a row in rows whose last_request + COOLDOWN_PERIOD is after t
Cooling(rows, u, t) ==
    /\ fetchone(rows, u) # << >>
    /\ fromisoformat(fetchone(rows, u)[1]) + CooldownSeconds > t

\* every message the invocation delivered is the wait text, at most one
OnlyWait ==
    /\ Len(outbox) <= 1
    /\ \A i \in 1..Len(outbox) : outbox[i].kind = "wait"

\* C1 (as stated): a news command of a non-admin user whose row is still
\* inside the cooldown ends with the wait message only, makes no upstream
\* request and leaves the table as it was.
C1_Original ==
    (cmd = "news" /\ user_id # ADMIN_ID /\ Cooling(pre, user_id, recvAt))
        => /\ calls = 0
           /\ users = pre
           /\ pc = "idle" => OnlyWait

\* C1 (amended): the same, when the table read of the eligibility check
\* did not fail: the handler has ended, no upstream request was made, the
\* table is as it was, and nothing but the wait message was delivered (the
\* wait message itself whenever reply_text did not raise).
C1_WaitOnly ==
    (/\ cmd = "news"
     /\ user_id # ADMIN_ID
     /\ Cooling(pre, user_id, recvAt)
     /\ "DB error" \notin log)
        => /\ pc = "idle"
           /\ calls = 0
           /\ users = pre
           /\ OnlyWait
           /\ result \in {"returned", "TelegramError"}
           /\ result = "returned" =>
                /\ Len(outbox) = 1
                /\ outbox[1].text # << >>

C1_Witness ==
    /\ cmd = "news"
    /\ user_id # ADMIN_ID
    /\ Cooling(pre, user_id, recvAt)
    /\ "DB error" \notin log
    /\ result = "returned"
    /\ Len(outbox) = 1
    /\ outbox[1].kind = "wait"
    /\ recvAt > lastAt[user_id]

\* C2: in every reachable state the administrator is reported eligible by
\* the eligibility check and has no row in the table.
C2_AdminInvisible ==
    /\ can_request(users, ADMIN_ID, now, FALSE).allowed
    /\ fetchone(users, ADMIN_ID) = << >>

\* the kinds of the messages the invocation delivered, in order
Kinds == [i \in 1..Len(outbox) |-> outbox[i].kind]

\* C3: a news command of a user without a row, with storage and delivery
\* working, makes exactly one upstream request, delivers the formatted
\* digest, and ends with exactly one row for that user whose last_request
\* was read from the clock during the invocation, not before the command
\* was received.
C3_FirstRequestRecorded ==
    (/\ cmd = "news"
     /\ fetchone(pre, user_id) = << >>
     /\ result = "returned"
     /\ log \cap {"DB error", "Error updating timestamp"} = {})
        => /\ calls = 1
           /\ Kinds = << "fetching", "digest", "next" >>
           /\ outbox[2].text # << >>
           /\ Cardinality({r \in users : r.user_id = user_id}) = 1
           /\ {r \in users : r.user_id # user_id} =
                {r \in pre : r.user_id # user_id}
           /\ LET ts == fromisoformat(fetchone(users, user_id)[1])
              IN  recvAt <= ts /\ ts <= now

C3_Witness ==
    /\ cmd = "news"
    /\ user_id # ADMIN_ID
    /\ fetchone(pre, user_id) = << >>
    /\ result = "returned"
    /\ log = {}
    /\ calls = 1
    /\ fetchone(users, user_id) # << >>
    /\ fromisoformat(fetchone(users, user_id)[1]) > recvAt
    /\ outbox[2].text # NoNewsMsg

\* C4: with storage working, the eligibility check returns (true, "")
\* exactly when the user was never recorded or now is at or after the
\* recorded time plus the cooldown, and (false, non-empty text) otherwise;
\* the instant recorded time + cooldown itself is eligible.
C4_Eligibility ==
    \A u \in Users :
      LET r == can_request(users, u, now, FALSE)
          eligible == lastAt[u] = -1 \/ now >= lastAt[u] + CooldownSeconds
      IN  /\ r.allowed <=> eligible
          /\ r.allowed => r.msg = << >>
          /\ ~ r.allowed => r.msg # << >>
          /\ ~ r.err

C4_Witness ==
    \E u \in Users :
      /\ lastAt[u] >= 0
      /\ now = lastAt[u] + CooldownSeconds
      /\ can_request(users, u, now, FALSE).allowed
      /\ \E v \in Users : lastAt[v] >= 0 /\ now < lastAt[v] + CooldownSeconds

\* instants inside the cooldown that starts at w
ProbeTimes(w) == {w, w + 1, w + 3599, w + CooldownSeconds - 1}

\* C5: once update_last_request has written a non-admin user's row, the
\* eligibility check for that user reports ineligible at once and at every
\* instant before the written time plus the cooldown, whatever rows other
\* users write meanwhile.
C5_RecordedThenIneligible ==
    \A u \in Users \ {ADMIN_ID} :
      lastAt[u] >= 0 =>
        \A t \in ProbeTimes(lastAt[u])
                   \cup {x \in {now} : x < lastAt[u] + CooldownSeconds} :
          ~ can_request(users, u, t, FALSE).allowed

C5_Witness ==
    \E u \in Users \ {ADMIN_ID} :
      /\ lastAt[u] >= 0
      /\ lastAt[u] < now
      /\ now < lastAt[u] + CooldownSeconds
      /\ \E v \in Users \ {u} : lastAt[v] > lastAt[u]
      /\ ~ can_request(users, u, now, FALSE).allowed

\* the hours and minutes of a wait text are the remaining seconds floored
\* to whole minutes
WaitMatches(text, remaining) ==
    /\ 0 <= text[3]
    /\ text[3] < 60
    /\ text[2] * 60 + text[3] = remaining \div 60

\* C6: whenever a wait text is shown (by news or by status), its hours H
\* and minutes M satisfy 0 <= M < 60 and H*60 + M = floor(remaining / 60),
\* remaining being the true time left until last_request_at + cooldown,
\* also when that is a day or more.
C6_WaitMatchesRemaining ==
    (/\ result = "returned"
     /\ Len(outbox) = 1
     /\ outbox[1].kind \in {"wait", "status_wait"})
        => WaitMatches(outbox[1].text,
                       lastAt[user_id] + CooldownSeconds - recvAt)

\* C7: when the table access of the eligibility check fails, the check
\* returns (true, "") and the news command goes on to the fetch: the user is
\* shown no wait text, and unless delivering the progress text itself fails
\* the upstream request is made, also for a user inside the cooldown.
C7_FailOpen ==
    /\ \A u \in Users :
         can_request(users, u, now, TRUE) =
           [allowed |-> TRUE, msg |-> << >>, err |-> TRUE]
    /\ (cmd = "news" /\ "DB error" \in log) =>
         /\ \A i \in 1..Len(outbox) : outbox[i].kind # "wait"
         /\ \/ outbox = << >> /\ result = "TelegramError" /\ calls = 0
            \/ Len(outbox) >= 1 /\ outbox[1].kind = "fetching"
                 /\ (pc = "fetch" \/ calls = 1)

C7_Witness ==
    /\ cmd = "news"
    /\ "DB error" \in log
    /\ Cooling(pre, user_id, recvAt)
    /\ calls = 1
    /\ result = "returned"

\* C8: when the table write of update_last_request fails, the failure is
\* swallowed: the table is as it was when the command was received, no
\* exception of the write leaves the handler, and the handler runs to its
\* end, the digest delivered before and the next-time text after.
C8_WriteFailureSwallowed ==
    /\ cmd = "news" => result # "sqlite3.Error"
    /\ (cmd = "news" /\ "Error updating timestamp" \in log) =>
        /\ users = pre
        /\ pc = "idle"
        /\ result \in {"returned", "TelegramError"}
        /\ Len(outbox) >= 2 /\ outbox[2].kind = "digest"
        /\ result = "returned" => Kinds = << "fetching", "digest", "next" >>
        /\ result = "TelegramError" => Kinds = << "fetching", "digest" >>

C8_Witness ==
    /\ cmd = "news"
    /\ "Error updating timestamp" \in log
    /\ result = "returned"
    /\ Len(outbox) = 3
    /\ outbox[3].kind = "next"
    /\ users = pre
    /\ users # {}

\* C9: for every failing upstream outcome get_top_news returns the empty
\* list and raises nothing, and the news invocation then delivers the fixed
\* no-news text (no exception of the fetch leaves the handler).
C9_FetchDegrades ==
    /\ \A resp \in Responses :
         resp.kind \in FailureKinds =>
           LET r == get_top_news(resp)
           IN  r.items = << >> /\ ~ r.raised /\ r.err
    /\ (cmd = "news" /\ "News fetch error" \in log) =>
         /\ result # "Exception"
         /\ calls = 1
         /\ \/ Len(outbox) = 1 /\ result = "TelegramError"
            \/ Len(outbox) >= 2
                 /\ outbox[2] = [kind |-> "digest", text |-> NoNewsMsg]

C9_Witness ==
    /\ cmd = "news"
    /\ "News fetch error" \in log
    /\ result = "returned"
    /\ outbox[2].text = NoNewsMsg

\* C10: no handler (start, news, status) ends with an exception leaving
\* it: under a table read failure, a table write failure, an upstream
\* failure or a send failure it ends by returning.
C10_NoExceptionEscapes ==
    result \in {"none", "running", "returned"}

\* a finished news command of a non-admin user who was eligible when the
\* command was received, whose digest was delivered and was the no-news
\* message
NoNewsDelivered ==
    /\ cmd = "news"
    /\ user_id # ADMIN_ID
    /\ ~ Cooling(pre, user_id, recvAt)
    /\ pc = "idle"
    /\ Len(outbox) >= 2
    /\ outbox[2].kind = "digest"
    /\ outbox[2].text = NoNewsMsg

C12_ScheduledDelivery ==
    phase = "serving" => "scheduled" \in handlers

\* get_top_news has returned for an upstream response that was received
Fetched == probe.stage = "fetched" /\ probe.resp.kind = "ok"

\* C13: a response whose list "news" is empty or absent is read from its
\* list "web": it yields the items the same entries yield under "news".
C13_FallbackToWeb ==
    (Fetched /\ probe.resp.news = << >>)
        => probe.items =
             get_top_news([kind |-> "ok", news |-> probe.resp.web,
                           web |-> << >>]).items

\* two characters that are the same letter, whatever their case
SameLetter(a, b) == LowerChar(a) = LowerChar(b)

\* the title has a keyword as a substring, case ignored
TitleMatches(title) ==
    \E kw \in Keywords, i \in 1..Len(title) :
      /\ i + Len(kw) - 1 <= Len(title)
      /\ \A j \in 1..Len(kw) : SameLetter(title[i + j - 1], kw[j])

\* positions of the upstream list whose title matches
MatchIdx(raw) == {i \in 1..Len(raw) : TitleMatches(raw[i].title)}

\* the position of the k-th matching item of the upstream list
KthMatch(raw, k) ==
    CHOOSE i \in MatchIdx(raw) :
      Cardinality({j \in MatchIdx(raw) : j <= i}) = k

\* C14: the list get_top_news returns is the first five, in upstream
\* order, of the upstream items whose title has a keyword as a
\* case-insensitive substring: as long as the matching items up to five,
\* its k-th element made from the k-th matching upstream item.
C14_FirstFiveMatches ==
    Fetched =>
      LET raw == probe.resp.news
          items == probe.items
      IN  /\ Len(items) = Min(5, Cardinality(MatchIdx(raw)))
          /\ \A k \in 1..Len(items) :
                LET src == raw[KthMatch(raw, k)]
                IN  /\ items[k].title = src.title
                    /\ items[k].url = src.url
                    /\ items[k].source = src.source_name

C14_Witness ==
    /\ Fetched
    /\ Len(probe.resp.news) = 7
    /\ MatchIdx(probe.resp.news) = {1, 3, 4, 5, 6, 7}
    /\ probe.resp.news[1] = ItemC
    /\ probe.resp.news[3] = ItemA
    /\ Len(probe.items) = 5
    /\ probe.items[1].title = ItemC.title
    /\ probe.items[2].title = ItemA.title

\* number of characters of a summary: the kept characters and the marker
SummaryLen(d) == d.len + (IF d.suffix = "..." THEN 3 ELSE 0)

\* C15: the description of every returned item is at most 180 characters
\* long, is the upstream description unchanged when that has at most 180
\* characters, and ends with the ellipsis only when the upstream
\* description was longer than 180 characters.
C15_SummaryWithinBudget ==
    Fetched =>
      \A k \in 1..Len(probe.items) :
        LET d == probe.items[k].description
            orig == probe.resp.news[KthMatch(probe.resp.news, k)].description
        IN  /\ SummaryLen(d) <= 180
            /\ orig <= 180 => d = [len |-> orig, suffix |-> ""]
            /\ d.suffix = "..." => orig > 180

\* C16: format_news returns the no-news message for the empty list and
\* for no other; for a non-empty list it returns a header followed by one
\* block per item, numbered from 1 in the order of the list, each with the
\* title, description, url and source of its item.
C16_OneBlockPerItem ==
    probe.stage = "rendered" =>
      LET items == probe.items
          text == probe.text
      IN  /\ items = << >> => text = NoNewsMsg
          /\ items # << >> =>
                /\ text # NoNewsMsg
                /\ Len(text) = Len(items) + 1
                /\ text[1].kind = "header"
                /\ \A i \in 1..Len(items) :
                      /\ text[i + 1].kind = "block"
                      /\ text[i + 1].n = i
                      /\ text[i + 1].title = items[i].title
                      /\ text[i + 1].description = items[i].description
                      /\ text[i + 1].url = items[i].url
                      /\ text[i + 1].source = items[i].source

C16_Witness ==
    /\ probe.stage = "rendered"
    /\ Len(probe.items) = 7
    /\ probe.items[1].title = ItemB.title
    /\ probe.items[7].title = ItemA.title
    /\ Len(probe.text) = 8
    /\ probe.text[8].n = 7
    /\ probe.text[8].title = ItemA.title

\* the rows of the table that belong to u
RowsOf(rows, u) == {r \in rows : r.user_id = u}

\* C17: however the news commands of different users follow one another,
\* the table never holds more than one row per user_id, a user's row is
\* absent or carries the timestamp written by that user's own latest
\* recorded command, and an invocation leaves the rows of every user other
\* than its own as they were.
C17_RecordsIsolated ==
    /\ \A u \in Users :
          /\ Cardinality(RowsOf(users, u)) <= 1
          /\ RowsOf(users, u) = {} <=> lastAt[u] = -1
          /\ \A r \in RowsOf(users, u) :
                fromisoformat(r.last_request) = lastAt[u]
    /\ \A u \in Users \ {user_id} : RowsOf(users, u) = RowsOf(pre, u)

C17_Witness ==
    /\ cmd = "news"
    /\ pc = "idle"
    /\ RowsOf(pre, user_id) # {}
    /\ RowsOf(users, user_id) # RowsOf(pre, user_id)
    /\ \E u \in Users \ {user_id} :
          /\ RowsOf(users, u) # {}
          /\ lastAt[u] < lastAt[user_id]
          /\ lastAt[u] > 0

\* one of the two credentials is unset or empty in the environment
CredentialAbsent ==
    \E k \in {"TELEGRAM_TOKEN", "YOU_API_KEY"} : env[k] \in {"unset", "empty"}

\* C18: with a credential absent at startup the process never serves: the
\* table is not created, no handler is registered, and no command is ever
\* taken, answered or recorded.
C18_NoServingWithoutCredentials ==
    CredentialAbsent
        => /\ phase # "serving"
           /\ ~ tableCreated
           /\ handlers = {}
           /\ cmd = "none"
           /\ pc = "idle"
           /\ users = {}
           /\ outbox = << >>
           /\ calls = 0

C18_Witness ==
    /\ env.TELEGRAM_TOKEN = "set"
    /\ env.YOU_API_KEY = "empty"
    /\ phase = "stopped"
    /\ ticks = MaxTicks
    /\ handlers = {}

\* C19: on storage that never fails, an upstream request made for a
\* non-admin user comes no sooner than the cooldown after the previous
\* upstream request made for the same user, also when the delivery of the
\* digest failed after that previous request.
C19_FetchesCooldownApart ==
    [][ (/\ storage = "reliable"
         /\ calls' = calls + 1
         /\ user_id \in NonAdmin
         /\ fetchedAt[user_id] >= 0)
           => now >= fetchedAt[user_id] + CooldownSeconds ]_vars

\* the reply of status agrees with the eligibility check made at clock
\* reading t: "can request now" exactly when the check allows, and
\* otherwise the hours and minutes of the check's wait text
AgreesAt(reply, t) ==
    LET r == can_request(pre, user_id, t, FALSE)
    IN  /\ reply.kind = "can_request_now" <=> r.allowed
        /\ ~ r.allowed => /\ reply.kind = "status_wait"
                          /\ reply.text = r.msg

\* C20: a status command that replied left the table as it was, made no
\* upstream request, and its reply agrees with the eligibility check at
\* the time the command ran (at its first or at its last clock reading).
C20_StatusAgrees ==
    (cmd = "status" /\ result = "returned")
        => /\ users = pre
           /\ calls = 0
           /\ Len(outbox) = 1
           /\ AgreesAt(outbox[1], recvAt) \/ AgreesAt(outbox[1], now)

====
